---- MODULE Spec2Model ----
(***************************************************************************)
(* DomainMonitor (src/main.go): the polling loop of main, one cycle of     *)
(* MonitorDomains with every outbound call (WHOIS, DNS, webhook POST) as a  *)
(* step, the fingerprint HashDomainInfo and the dispatcher SendWebhook.     *)
(***************************************************************************)
EXTENDS Integers, Sequences, FiniteSets, TLC

VARIABLES
    pc,              \* position of the process: load, observe, send, blocked, range, return, sleep,
                     \* exited, panicked
    config,          \* main: config, the value LoadConfig returned for this cycle
    previousStates,  \* main: previousStates, domain name -> fingerprint
    currentStates,   \* MonitorDomains: currentStates
    i,               \* MonitorDomains: index of the entry of config.Domains being visited
    todo,            \* MonitorDomains: keys of previousStates the second loop has not visited yet
    message,         \* MonitorDomains: message of the event being dispatched
    domainInfo,      \* MonitorDomains: the *DomainInfo handed to SendWebhook (Nil for "finished")
    pending,         \* the SendWebhook calls of the current event still to be made, in order
    resume,          \* the loop the dispatch returns to: observe or range
    fetched,         \* history: per entry of config.Domains, the fingerprint observed or NotObserved
    infos,           \* history: per entry of config.Domains, the DomainInfo observed or Nil
    previousInfos,   \* history: the DomainInfo behind each fingerprint of previousStates
    file,            \* history: what config.yaml held at the last LoadConfig (Unreadable: no decodable file)
    events,          \* history: the events of this cycle, in order
    attempts,        \* history: the SendWebhook calls of this cycle, in order, with their result
    sameConfig,      \* history: LoadConfig returned the value it returned for the previous cycle
    dropped,         \* history: name -> domain-level sinks of the names the reload removed
    slept,           \* history: minutes of the last time.Sleep
    open,            \* history: the names whose last event so far is Enabled or Changed
    quiet            \* history: the names that had an entry in previousStates once and were
                     \* observed in no cycle that has returned since

vars == <<pc, config, previousStates, currentStates, i, todo, message, domainInfo,
          pending, resume, fetched, infos, previousInfos, file, events, attempts,
          sameConfig, dropped, slept, open, quiet>>

-----------------------------------------------------------------------------
(* Bounds of the model *)

\* longest config.Domains
MaxDomains == 2
\* longest webhook list (of a domain, and the global one)
MaxSinks == 1
\* name servers of a WHOIS record in SpecFingerprint
MaxNameServers == 3
\* how far below zero and above the floor the intervals of SpecInterval go
IntervalSpan == 2
\* longest webhook list (of the domain, and the global one) in SpecFanOut
MaxFanOut == 2

-----------------------------------------------------------------------------
(* Values *)

Names == {"a.com", "b.com"}

Teams == [Type |-> "teams", URL |-> "https://teams.example/hook"]
Discord == [Type |-> "discord", URL |-> "https://discord.example/hook"]
Slack == [Type |-> "slack", URL |-> "https://slack.example/hook"]
PagerDuty == [Type |-> "pagerduty", URL |-> "https://events.pagerduty.example/v2/enqueue"]

Nil == [Nil |-> TRUE]
NoConfig == [Interval |-> 0, Domains |-> <<>>, Webhooks |-> <<>>]
NotObserved == ""
EmptyMap == [d \in {} |-> ""]

SeqsUpTo(S, n) == UNION {[1..k -> S] : k \in 0..n}

Range(s) == {s[k] : k \in DOMAIN s}

RECURSIVE Concat(_)
Concat(ss) == IF ss = <<>> THEN <<>> ELSE Head(ss) \o Concat(Tail(ss))

-----------------------------------------------------------------------------
(* LoadConfig: the interval floor *)

\* the floor of config.Interval, in minutes
MinInterval == 5

\* the floor applied to negative intervals only
IntervalFloorNegativeOnly(n) == IF n < 0 THEN MinInterval ELSE n

IntervalFloor(n) == IF n < MinInterval THEN MinInterval ELSE n

\* config.yaml cannot be opened or does not decode
Unreadable == [Unreadable |-> TRUE]

\* LoadConfig: an error for a file that does not open or decode, else the decoded value
\* with the interval raised to the floor
LoadConfig(yaml) ==
    IF yaml = Unreadable THEN [err |-> TRUE, config |-> NoConfig]
    ELSE [err |-> FALSE, config |-> [yaml EXCEPT !.Interval = IntervalFloor(yaml.Interval)]]

-----------------------------------------------------------------------------
(* parseDate, ParseWHOIS, ResolveIP *)

ZeroTime == "0001-01-01 00:00:00 +0000 UTC"
ParseError == "parse error"

Layouts == <<"2006-01-02T15:04:05Z07:00", "2006-01-02T15:04:05Z", "2006-01-02 15:04:05",
             "2006-01-02", "02-Jan-2006", "02-Jan-2006 15:04:05 MST">>

\* time.Parse on the date strings the modelled WHOIS records carry; the value is
\* the time.Time as String() prints it
TimeParse(layout, dateStr) ==
    CASE dateStr = "2020-01-02T03:04:05Z" /\ layout \in {Layouts[1], Layouts[2]}
           -> "2020-01-02 03:04:05 +0000 UTC"
      [] dateStr = "2030-01-02" /\ layout = Layouts[4]
           -> "2030-01-02 00:00:00 +0000 UTC"
      [] dateStr = "02-Jan-2024" /\ layout = Layouts[5]
           -> "2024-01-02 00:00:00 +0000 UTC"
      [] OTHER -> ParseError

parseDate(dateStr) ==
    LET ok == {k \in DOMAIN Layouts : TimeParse(Layouts[k], dateStr) # ParseError}
        first == CHOOSE k \in ok : \A m \in ok : k <= m
    IN  IF ok = {} THEN ZeroTime ELSE TimeParse(Layouts[first], dateStr)

\* the zero DomainInfo{Domain: domain}
NewDomainInfo(domain) ==
    [Domain |-> domain, RegistrarTag |-> "", NameServers |-> <<>>,
     CreationDate |-> ZeroTime, ExpiryDate |-> ZeroTime, UpdatedDate |-> ZeroTime,
     IPAddress |-> ""]

\* ParseWHOIS after whoisparser.Parse succeeded with `result`
ParseWHOIS(domain, result) ==
    [NewDomainInfo(domain) EXCEPT
        !.RegistrarTag = IF result.Registrar # "" THEN result.Registrar ELSE @,
        !.NameServers = IF result.NameServers # <<>> THEN result.NameServers ELSE @,
        !.CreationDate = IF result.CreatedDate # "" THEN parseDate(result.CreatedDate) ELSE @,
        !.ExpiryDate = IF result.ExpirationDate # "" THEN parseDate(result.ExpirationDate) ELSE @,
        !.UpdatedDate = IF result.UpdatedDate # "" THEN parseDate(result.UpdatedDate) ELSE @]

\* ResolveIP on what net.LookupIP returned: the first address, or an error
ResolveIP(lookup) ==
    IF lookup.err THEN [ip |-> "", err |-> TRUE]
    ELSE IF Len(lookup.ips) = 0 THEN [ip |-> "", err |-> TRUE]
    ELSE [ip |-> lookup.ips[1], err |-> FALSE]

-----------------------------------------------------------------------------
(* HashDomainInfo *)

RECURSIVE JoinSpace(_)
JoinSpace(ss) ==
    IF ss = <<>> THEN ""
    ELSE IF Len(ss) = 1 THEN ss[1]
    ELSE ss[1] \o " " \o JoinSpace(Tail(ss))

\* fmt.Sprintf("%v", ss) of a []string
FormatSlice(ss) == "[" \o JoinSpace(ss) \o "]"

\* fmt.Sprintf("%v", *info): the fields in declaration order, the name servers in list order
FormatInfo(info) ==
    "{" \o info.Domain \o " " \o info.RegistrarTag \o " " \o FormatSlice(info.NameServers)
        \o " " \o info.CreationDate \o " " \o info.ExpiryDate \o " " \o info.UpdatedDate
        \o " " \o info.IPAddress \o "}"

\* the hex SHA-256 of data, taken as collision-free: one digest per input
Sha256Hex(data) == "sha256:" \o data

HashDomainInfo(info) == Sha256Hex(FormatInfo(info))

-----------------------------------------------------------------------------
(* SendWebhook *)

Panic == [Panic |-> "nil pointer dereference"]
Unsupported == [Unsupported |-> TRUE]

\* the payload SendWebhook builds; the discord case reads the fields of domainInfo
Payload(webhook, msg, info) ==
    CASE webhook.Type = "pagerduty" ->
            [payload |-> [summary |-> msg, severity |-> "info", source |-> "domain-monitor"],
             routing_key |-> webhook.URL, event_action |-> "trigger"]
      [] webhook.Type = "teams" -> [text |-> msg]
      [] webhook.Type = "discord" ->
            IF info = Nil THEN Panic
            ELSE [embeds |-> <<[title |-> msg,
                                description |-> "Details: " \o info.Domain \o " "
                                    \o info.RegistrarTag \o " " \o FormatSlice(info.NameServers)
                                    \o " " \o info.CreationDate \o " " \o info.ExpiryDate
                                    \o " " \o info.UpdatedDate \o " " \o info.IPAddress,
                                color |-> 3447003]>>]
      [] OTHER -> Unsupported

\* what client.Do can give: a transport error, or a response with a status code
Replies == {[err |-> TRUE, StatusCode |-> 0]}
             \cup {[err |-> FALSE, StatusCode |-> c] : c \in {200, 299, 300, 500}}

\* the result of SendWebhook: "ok" for nil, "err" for a returned error, "panic"
SendWebhook(webhook, msg, info, reply) ==
    LET payload == Payload(webhook, msg, info)
    IN  IF payload = Panic THEN "panic"
        ELSE IF payload = Unsupported THEN "err"
        ELSE IF reply.err THEN "err"
        ELSE IF reply.StatusCode >= 300 THEN "err"
        ELSE "ok"

-----------------------------------------------------------------------------
(* Inputs: the contents config.yaml can have, and what the network can answer *)

Sinks == {Teams, Discord, Slack}
SinkLists == SeqsUpTo(Sinks, MaxSinks)
Entries == [Name : Names, Webhooks : SinkLists]

\* config.yaml as decoded, any list of at most MaxDomains entries (names may repeat)
ConfigFiles ==
    [Interval : {1}, Domains : SeqsUpTo(Entries, MaxDomains), Webhooks : SinkLists]

\* the configurations that list no name twice
DistinctFiles ==
    {f \in ConfigFiles :
        \A m, n \in DOMAIN f.Domains : f.Domains[m].Name = f.Domains[n].Name => m = n}

\* what whoisparser.Parse returns for a registered domain
WhoisRecord(registrar, nameServers) ==
    [Registrar |-> registrar, NameServers |-> nameServers,
     CreatedDate |-> "2020-01-02T03:04:05Z", ExpirationDate |-> "2030-01-02",
     UpdatedDate |-> "02-Jan-2024"]

Records == {WhoisRecord(r, <<"ns1.example", "ns2.example">>) : r \in {"A", "B"}}

Lookups == {[err |-> TRUE, ips |-> <<>>], [err |-> FALSE, ips |-> <<>>],
            [err |-> FALSE, ips |-> <<"192.0.2.1", "192.0.2.2">>]}

\* the permutations of a list
Orderings(ss) ==
    {p \in [DOMAIN ss -> Range(ss)] : \A x \in Range(ss) : \E k \in DOMAIN p : p[k] = x}

NameServerPool == <<"ns1.example", "ns2.example", "ns3.example", "ns4.example">>

\* one registration, its MaxNameServers name servers listed in every order
PermutedRecords ==
    {WhoisRecord("A", p) : p \in Orderings(SubSeq(NameServerPool, 1, MaxNameServers))}

FingerprintFiles ==
    {[Interval |-> 5, Domains |-> <<[Name |-> "a.com", Webhooks |-> <<>>]>>,
      Webhooks |-> <<Teams>>]}

\* the intervals from IntervalSpan below zero to IntervalSpan above the floor
Intervals == (0 - IntervalSpan)..(MinInterval + IntervalSpan)

IntervalFiles ==
    {[Interval |-> n, Domains |-> <<[Name |-> "a.com", Webhooks |-> <<>>]>>,
      Webhooks |-> <<PagerDuty>>] : n \in Intervals}

\* a.com with a teams sink of its own, then b.com, under a global teams sink: no sink
\* of these configurations can panic or be refused as unsupported
TimeoutFiles ==
    {[Interval |-> 5, Domains |-> SubSeq(ds, 1, n), Webhooks |-> <<Teams>>] :
        n \in 0..2,
        ds \in {<<[Name |-> "a.com", Webhooks |-> <<Teams>>],
                  [Name |-> "b.com", Webhooks |-> <<>>]>>}}

\* one domain, its own webhooks and the global ones any lists of at most MaxFanOut sinks
FanOutFiles ==
    {[Interval |-> 5, Domains |-> <<[Name |-> "a.com", Webhooks |-> own]>>,
      Webhooks |-> global] :
        own \in SeqsUpTo(Sinks, MaxFanOut), global \in SeqsUpTo(Sinks, MaxFanOut)}

NoRecord == WhoisRecord("", <<>>)
NoLookup == [err |-> TRUE, ips |-> <<>>]

\* one visit of a domain: what whois.Whois, whoisparser.Parse and net.LookupIP answer
Answers(records) ==
    {[whoisErr |-> TRUE, parseErr |-> FALSE, result |-> NoRecord, lookup |-> NoLookup],
     [whoisErr |-> FALSE, parseErr |-> TRUE, result |-> NoRecord, lookup |-> NoLookup]}
      \cup [whoisErr : {FALSE}, parseErr : {FALSE}, result : records, lookup : Lookups]

-----------------------------------------------------------------------------
(* MonitorDomains: the control flow between its outbound calls *)

ConfigNames(cfg) == {cfg.Domains[k].Name : k \in DOMAIN cfg.Domains}

\* a global webhook that the domain lists as well left out
EventWebhooksDeduplicated(domain, cfg) ==
    domain.Webhooks \o SelectSeq(cfg.Webhooks, LAMBDA w : w \notin Range(domain.Webhooks))

\* the loop over the global webhooks left out
EventWebhooksDomainOnly(domain, cfg) == domain.Webhooks

\* lines 229-238 and 241-250: the domain's own webhooks, then the global ones
EventWebhooks(domain, cfg) == domain.Webhooks \o cfg.Webhooks

\* lines 257-265: the webhooks of every entry of cfg.Domains named d, in list order
DomainWebhooks(cfg, d) ==
    Concat([k \in DOMAIN cfg.Domains |->
              IF cfg.Domains[k].Name = d THEN cfg.Domains[k].Webhooks ELSE <<>>])

\* lines 257-270: the webhooks a "finished" message goes to
RemovedWebhooks(cfg, d) == DomainWebhooks(cfg, d) \o cfg.Webhooks

\* the new map started from the entries of the previous one
MakeStatesCarried(previous) == previous

\* line 202: currentStates starts empty, whatever previousStates holds
MakeStates(previous) == EmptyMap

\* a key of previousStates taken as finished only when the configuration no longer lists it
FinishedUnconfigured(current, domainName) == domainName \notin ConfigNames(config)

\* every key of previousStates taken as finished
FinishedAlways(current, domainName) == TRUE

\* line 255: a key of previousStates with no entry in currentStates
Finished(current, domainName) == domainName \notin DOMAIN current

\* a known domain whose fingerprint differs announced as newly monitored
ClassifyReenables(previous, name, hash) ==
    IF name \notin DOMAIN previous THEN "Enabled"
    ELSE IF previous[name] # hash THEN "Enabled"
    ELSE "Silent"

\* every known domain taken as changed, whatever its fingerprint
ClassifyNeverSilent(previous, name, hash) ==
    IF name \notin DOMAIN previous THEN "Enabled" ELSE "Changed"

\* the comparison of line 239 inverted
ClassifyInverted(previous, name, hash) ==
    IF name \notin DOMAIN previous THEN "Enabled"
    ELSE IF previous[name] = hash THEN "Changed"
    ELSE "Silent"

\* lines 227 and 239: what the first loop does with a fingerprint
Classify(previous, name, hash) ==
    IF name \notin DOMAIN previous THEN "Enabled"
    ELSE IF previous[name] # hash THEN "Changed"
    ELSE "Silent"

EventMessage(kind, d) ==
    CASE kind = "Enabled" -> "Monitoring enabled for domain: " \o d
      [] kind = "Changed" -> "Domain information changed for: " \o d
      [] kind = "Removed" -> "Monitoring finished for domain: " \o d

Put(map, k, v) == [d \in DOMAIN map \cup {k} |-> IF d = k THEN v ELSE map[d]]

\* where the first loop goes after entry k: the next entry, or the loop over previousStates
AfterEntry(k, cfg) ==
    IF k < Len(cfg.Domains)
    THEN [pc |-> "observe", i |-> k + 1, todo |-> {}]
    ELSE [pc |-> IF DOMAIN previousStates = {} THEN "return" ELSE "range",
          i |-> k + 1, todo |-> DOMAIN previousStates]

\* where the second loop goes once the keys in t are left to visit
AfterRange(t) == [pc |-> IF t = {} THEN "return" ELSE "range", i |-> i, todo |-> t]

Goto(ctl) == pc' = ctl.pc /\ i' = ctl.i /\ todo' = ctl.todo

\* an event: its message is built and its webhooks are queued (none: the loop goes on)
Emit(kind, d, entry, info, hooks, from, ctl) ==
    /\ events' = Append(events, [kind |-> kind, name |-> d, entry |-> entry])
    /\ open' = IF kind = "Removed" THEN open \ {d} ELSE open \cup {d}
    /\ message' = EventMessage(kind, d)
    /\ domainInfo' = info
    /\ pending' = hooks
    /\ resume' = from
    /\ IF hooks = <<>> THEN Goto(ctl)
       ELSE pc' = "send" /\ i' = i /\ todo' = ctl.todo

-----------------------------------------------------------------------------
(* The actions *)

\* main, lines 282-288: LoadConfig succeeds and MonitorDomains starts
LoadConfigOK(files) ==
    /\ pc = "load"
    /\ \E yaml \in files \cup {Unreadable} :
         LET loaded == LoadConfig(yaml)
             c == loaded.config
             gone == ConfigNames(config) \ ConfigNames(c)
         IN  /\ ~loaded.err
             /\ config' = c
             /\ file' = yaml
             /\ sameConfig' = (c = config)
             /\ dropped' = [d \in gone |-> DomainWebhooks(config, d)]
             /\ fetched' = [k \in DOMAIN c.Domains |-> NotObserved]
             /\ infos' = [k \in DOMAIN c.Domains |-> Nil]
             /\ Goto(AfterEntry(0, c))
    /\ currentStates' = MakeStates(previousStates)
    /\ events' = <<>>
    /\ attempts' = <<>>
    /\ UNCHANGED <<previousStates, previousInfos, message, domainInfo, pending, resume, slept,
                   open, quiet>>

\* main, lines 283-286: LoadConfig returns an error and main returns
LoadConfigFail(files) ==
    /\ pc = "load"
    /\ \E yaml \in files \cup {Unreadable} :
         /\ LoadConfig(yaml).err
         /\ file' = yaml
    /\ pc' = "exited"
    /\ UNCHANGED <<config, previousStates, currentStates, i, todo, message, domainInfo,
                   pending, resume, fetched, infos, previousInfos, events,
                   attempts, sameConfig, dropped, slept, open, quiet>>

\* MonitorDomains, lines 204-251: one entry of config.Domains up to its first SendWebhook
ObserveDomain(records) ==
    /\ pc = "observe"
    /\ \E answer \in Answers(records) :
         LET domain == config.Domains[i]
             resolved == ResolveIP(answer.lookup)
             info == [ParseWHOIS(domain.Name, answer.result) EXCEPT !.IPAddress = resolved.ip]
             hash == HashDomainInfo(info)
             kind == Classify(previousStates, domain.Name, hash)
             next == AfterEntry(i, config)
         IN  IF answer.whoisErr \/ answer.parseErr \/ resolved.err
             THEN /\ Goto(next)
                  /\ UNCHANGED <<currentStates, fetched, infos, events, message, domainInfo,
                                 pending, resume, open>>
             ELSE /\ currentStates' = Put(currentStates, domain.Name, hash)
                  /\ fetched' = [fetched EXCEPT ![i] = hash]
                  /\ infos' = [infos EXCEPT ![i] = info]
                  /\ IF kind = "Silent"
                     THEN /\ Goto(next)
                          /\ UNCHANGED <<events, message, domainInfo, pending, resume, open>>
                     ELSE Emit(kind, domain.Name, i, info, EventWebhooks(domain, config),
                               "observe", next)
    /\ UNCHANGED <<config, previousStates, previousInfos, file, attempts, sameConfig,
                   dropped, slept, quiet>>

\* one SendWebhook call of the event being dispatched (lines 229-238, 241-250, 259-270)
Send ==
    /\ pc = "send"
    /\ \E reply \in Replies :
         LET webhook == Head(pending)
             result == SendWebhook(webhook, message, domainInfo, reply)
         IN  /\ attempts' = Append(attempts,
                    [event |-> Len(events), webhook |-> webhook, result |-> result])
             /\ IF result = "panic"
                THEN /\ pc' = "panicked"
                     /\ UNCHANGED <<i, todo, pending>>
                ELSE /\ pending' = Tail(pending)
                     /\ IF Tail(pending) # <<>>
                        THEN UNCHANGED <<pc, i, todo>>
                        ELSE IF resume = "observe"
                        THEN Goto(AfterEntry(i, config))
                        ELSE Goto(AfterRange(todo))
    /\ UNCHANGED <<config, previousStates, currentStates, message, domainInfo, resume,
                   fetched, infos, previousInfos, file, events, sameConfig, dropped,
                   slept, open, quiet>>

\* lines 186-187: client.Do of an http.Client that sets no Timeout, the peer never
\* answering: the call does not return and the process stays in it
ClientDoBlocks ==
    /\ pc = "send"
    /\ Payload(Head(pending), message, domainInfo) # Panic
    /\ Payload(Head(pending), message, domainInfo) # Unsupported
    /\ pc' = "blocked"
    /\ UNCHANGED <<config, previousStates, currentStates, i, todo, message, domainInfo,
                   pending, resume, fetched, infos, previousInfos, file, events,
                   attempts, sameConfig, dropped, slept, open, quiet>>

\* MonitorDomains, lines 254-272: one key of previousStates, in the order the map range gives
RangePrevious ==
    /\ pc = "range"
    /\ \E domainName \in todo :
         LET rest == todo \ {domainName}
         IN  IF Finished(currentStates, domainName)
             THEN Emit("Removed", domainName, 0, Nil, RemovedWebhooks(config, domainName),
                       "range", AfterRange(rest))
             ELSE /\ Goto(AfterRange(rest))
                  /\ UNCHANGED <<events, message, domainInfo, pending, resume, open>>
    /\ UNCHANGED <<config, previousStates, currentStates, fetched, infos, previousInfos,
                   file, attempts, sameConfig, dropped, slept, quiet>>

\* the DomainInfo behind currentStates[d]: the one of the last entry named d that was
\* observed (Nil for a name no entry of this cycle observed)
LastInfo(d) ==
    LET ks == {k \in DOMAIN infos : config.Domains[k].Name = d /\ infos[k] # Nil}
    IN  IF ks = {} THEN Nil ELSE infos[CHOOSE k \in ks : \A m \in ks : m <= k]

\* the names observed in this cycle: some entry of theirs was fetched, parsed and resolved
Observed ==
    {config.Domains[k].Name : k \in {m \in DOMAIN fetched : fetched[m] # NotObserved}}

\* lines 274 and 288: MonitorDomains returns currentStates, main stores it, and the
\* locals of the call (and the history of the cycle) are gone
StoreStates ==
    /\ previousStates' = currentStates
    /\ quiet' = (quiet \cup DOMAIN previousStates) \ Observed
    /\ previousInfos' = [d \in DOMAIN currentStates |-> LastInfo(d)]
    /\ pc' = "sleep"
    /\ currentStates' = EmptyMap
    /\ i' = 0
    /\ todo' = {}
    /\ message' = ""
    /\ domainInfo' = Nil
    /\ pending' = <<>>
    /\ resume' = "observe"
    /\ fetched' = <<>>
    /\ infos' = <<>>
    /\ events' = <<>>
    /\ attempts' = <<>>
    /\ sameConfig' = FALSE
    /\ dropped' = EmptyMap
    /\ UNCHANGED <<config, file, slept, open>>

\* previousStates replaced as soon as the first loop is over, before the second loop
\* has dispatched its events
ReturnEarly == pc \in {"return", "range"} /\ StoreStates

\* line 274: the return statement, reached once both loops are over
Return == pc = "return" /\ StoreStates

\* line 290: time.Sleep(config.Interval minutes), then the next iteration; the int64
\* nanosecond product does not wrap for the intervals of the model (it does beyond
\* 153722867 minutes)
Sleep ==
    /\ pc = "sleep"
    /\ slept' = config.Interval
    /\ pc' = "load"
    /\ UNCHANGED <<config, previousStates, currentStates, i, todo, message, domainInfo,
                   pending, resume, fetched, infos, previousInfos, file, events,
                   attempts, sameConfig, dropped, open, quiet>>

Init ==
    /\ pc = "load"
    /\ config = NoConfig
    /\ previousStates = EmptyMap
    /\ currentStates = EmptyMap
    /\ i = 0
    /\ todo = {}
    /\ message = ""
    /\ domainInfo = Nil
    /\ pending = <<>>
    /\ resume = "observe"
    /\ fetched = <<>>
    /\ infos = <<>>
    /\ previousInfos = EmptyMap
    /\ file = NoConfig
    /\ events = <<>>
    /\ attempts = <<>>
    /\ sameConfig = FALSE
    /\ dropped = EmptyMap
    /\ slept = 0
    /\ open = {}
    /\ quiet = {}

\* the loop over the configurations `files`, the network answering from `records`
Loop(files, records) ==
    \/ LoadConfigOK(files)
    \/ LoadConfigFail(files)
    \/ ObserveDomain(records)
    \/ Send
    \/ ClientDoBlocks
    \/ RangePrevious
    \/ Return
    \/ Sleep

Next == Loop(ConfigFiles, Records)

Spec == Init /\ [][Next]_vars

\* one domain whose name servers come back in any order
NextFingerprint == Loop(FingerprintFiles, PermutedRecords)

SpecFingerprint == Init /\ [][NextFingerprint]_vars

\* one domain and any interval around the floor
NextInterval == Loop(IntervalFiles, Records)

SpecInterval == Init /\ [][NextInterval]_vars

\* every reload gives a configuration whose names are distinct
NextDistinct == Loop(DistinctFiles, Records)

SpecDistinct == Init /\ [][NextDistinct]_vars

\* one domain under webhook lists of any composition
NextFanOut == Loop(FanOutFiles, Records)

SpecFanOut == Init /\ [][NextFanOut]_vars

\* the process is never descheduled for good: whenever it has a step to take, it takes one
NextTimeout == Loop(TimeoutFiles, Records)

SpecTimeout == Init /\ [][NextTimeout]_vars /\ WF_vars(NextTimeout)

-----------------------------------------------------------------------------
(* Reading the history of a cycle *)

\* MonitorDomains has run to its return statement, or a panic has ended the process
CycleOver == pc \in {"return", "panicked"}

Kinds(es) == [k \in DOMAIN es |-> es[k].kind]
EventsOf(d) == SelectSeq(events, LAMBDA e : e.name = d)
EventsOfEntry(k) == SelectSeq(events, LAMBDA e : e.entry = k)

\* the webhooks SendWebhook was called with for the n-th event, in order
Attempted(n) ==
    LET mine == SelectSeq(attempts, LAMBDA a : a.event = n)
    IN  [k \in DOMAIN mine |-> mine[k].webhook]

\* the domains a cycle has to account for: the configured ones and the keys of previousStates
CycleDomains == ConfigNames(config) \cup DOMAIN previousStates

\* C1: in one cycle every domain of C \cup keys(P) gets exactly the one outcome its
\* class calls for (Enabled, Changed, Removed or silence): none is skipped, none gets
\* two events, whatever the list (a name may be listed twice) and whatever fails.
C1_OneOutcomePerDomain ==
    CycleOver =>
      \A d \in CycleDomains :
        Kinds(EventsOf(d)) =
          IF d \notin DOMAIN currentStates
          THEN (IF d \in DOMAIN previousStates THEN <<"Removed">> ELSE <<>>)
          ELSE IF d \notin DOMAIN previousStates THEN <<"Enabled">>
          ELSE IF previousStates[d] # currentStates[d] THEN <<"Changed">>
          ELSE <<>>

\* the webhooks the n-th event of the cycle is due to: the domain's list, then the global one
DueWebhooks(n) ==
    IF events[n].kind = "Removed"
    THEN DomainWebhooks(config, events[n].name) \o config.Webhooks
    ELSE config.Domains[events[n].entry].Webhooks \o config.Webhooks

\* the events a domain is due from its own fetches alone, whatever happens to the others
OwnKinds(d) ==
    LET ks == {k \in DOMAIN config.Domains : config.Domains[k].Name = d}
        kindAt(k) == IF k \notin ks \/ fetched[k] = NotObserved THEN <<>>
                     ELSE IF d \notin DOMAIN previousStates THEN <<"Enabled">>
                     ELSE IF previousStates[d] # fetched[k] THEN <<"Changed">>
                     ELSE <<>>
        first == Concat([k \in DOMAIN config.Domains |-> kindAt(k)])
    IN  IF d \in DOMAIN previousStates /\ \A k \in ks : fetched[k] = NotObserved
        THEN first \o <<"Removed">>
        ELSE first

\* C2: when SendWebhook returned an error for one sink, every sink of every event of the
\* cycle is still attempted, every domain still gets its events, and the loop goes on.
C2_SinkFailureIsolated ==
    (CycleOver /\ \E n \in DOMAIN attempts : attempts[n].result = "err") =>
      /\ pc = "return"
      /\ \A n \in DOMAIN events : Attempted(n) = DueWebhooks(n)
      /\ \A d \in CycleDomains : Kinds(EventsOf(d)) = OwnKinds(d)

\* C3: when the fetch of an entry fails, every entry is still visited and every other
\* configured domain gets the events its own fetches call for, the ones it would get
\* had that fetch succeeded.
C3_DomainFailureIsolated ==
    CycleOver =>
      \A k \in DOMAIN config.Domains :
        fetched[k] = NotObserved =>
          /\ i > Len(config.Domains)
          /\ \A d \in ConfigNames(config) \ {config.Domains[k].Name} :
               Kinds(EventsOf(d)) = OwnKinds(d)

\* C4: a "finished" event sent to a discord sink never panics: the POST is attempted.
C4_RemovedToDiscordNoPanic ==
    \A n \in DOMAIN attempts :
      (events[attempts[n].event].kind = "Removed" /\ attempts[n].webhook.Type = "discord")
        => attempts[n].result \in {"ok", "err"}

\* C5: a domain with an entry in previousStates that the reload removed from the
\* configuration gets exactly one "finished" event, sent to the domain-level sinks it
\* had and to every global sink, with no DomainInfo.
C5_RemovedReachesDomainSinks ==
    CycleOver =>
      \A d \in DOMAIN dropped \cap DOMAIN previousStates :
        /\ Kinds(EventsOf(d)) = <<"Removed">>
        /\ \A n \in DOMAIN events :
             events[n].name = d => Attempted(n) = dropped[d] \o config.Webhooks

\* every entry was observed and its fingerprint is the one previousStates holds, and
\* previousStates holds nothing else: the cycle repeats the one before it
RepeatsPreviousCycle ==
    /\ DOMAIN previousStates = ConfigNames(config)
    /\ \A k \in DOMAIN config.Domains :
         /\ fetched[k] # NotObserved
         /\ fetched[k] = previousStates[config.Domains[k].Name]

\* C6: a cycle in which every domain yields the observation the previous cycle recorded
\* for it, under the same configuration, emits no event and calls no webhook.
C6_UnchangedIsSilent ==
    (CycleOver /\ RepeatsPreviousCycle) => (events = <<>> /\ attempts = <<>>)

C6_Witness ==
    /\ pc = "return"
    /\ sameConfig
    /\ RepeatsPreviousCycle
    /\ Len(config.Domains) = MaxDomains
    /\ ConfigNames(config) = Names
    /\ config.Webhooks # <<>>
    /\ \A k \in DOMAIN config.Domains :
         infos[k] = previousInfos[config.Domains[k].Name]

\* the events of a cycle that starts from an empty previousStates, as the code emits them:
\* one Enabled per entry that was observed, in list order
EnabledPerObservedEntry ==
    Concat([k \in DOMAIN config.Domains |->
              IF fetched[k] = NotObserved THEN <<>>
              ELSE <<[kind |-> "Enabled", name |-> config.Domains[k].Name, entry |-> k]>>])

IsPermutation(s, t) ==
    /\ Len(s) = Len(t)
    /\ \A x \in Range(s) \cup Range(t) :
         Cardinality({k \in DOMAIN s : s[k] = x}) = Cardinality({k \in DOMAIN t : t[k] = x})

\* two observations equal in every field but the order of their name servers
SameButNameServerOrder(a, b) ==
    /\ [a EXCEPT !.NameServers = <<>>] = [b EXCEPT !.NameServers = <<>>]
    /\ IsPermutation(a.NameServers, b.NameServers)

\* C9: two observations that differ only in the order of their name servers have the
\* same fingerprint, so an entry observed with only that order changed gets no event.
C9_NameServerOrderIgnored ==
    \A k \in DOMAIN infos :
      LET d == config.Domains[k].Name
      IN  (k < i /\ infos[k] # Nil /\ d \in DOMAIN previousInfos
             /\ SameButNameServerOrder(previousInfos[d], infos[k]))
            => /\ HashDomainInfo(infos[k]) = HashDomainInfo(previousInfos[d])
               /\ fetched[k] = previousStates[d]
               /\ EventsOfEntry(k) = <<>>

Max(a, b) == IF a >= b THEN a ELSE b

C11_ReloadFailureSkipsCycle == pc = "exited" => config = NoConfig

\* C12: a "finished" event is emitted only for a name that has an entry in previousStates
\* and is absent from the configuration of the cycle; a name the configuration still
\* lists never gets one.
C12_RemovedOnlyWhenUnconfigured ==
    \A n \in DOMAIN events :
      events[n].kind = "Removed" =>
        /\ events[n].name \in DOMAIN previousStates
        /\ events[n].name \notin ConfigNames(config)

\* MonitorDomains has been called and main has not reached time.Sleep yet
InCycle == pc \in {"observe", "send", "blocked", "range", "return"}

\* C13: every cycle completes and the loop reaches its sleep, whatever the peers do: an
\* outbound call that gets no response is ended by a timeout and counted as a failure.
C13_CycleReachesSleep == InCycle ~> (pc = "sleep")

\* the second loop takes d as its next key and emits the "finished" event of d
RemovedNext(d) ==
    /\ RangePrevious
    /\ Len(events') = Len(events) + 1
    /\ events'[Len(events')].name = d

\* the Enabled and Changed events come before every Removed event
FirstLoopEventsFirst ==
    \A m, n \in DOMAIN events :
      (m < n /\ events[m].kind = "Removed") => events[n].kind = "Removed"

\* the Enabled and Changed events come in the order of config.Domains
ConfigurationOrder ==
    \A m, n \in DOMAIN events :
      (m < n /\ events[m].kind # "Removed" /\ events[n].kind # "Removed")
        => events[m].entry < events[n].entry

\* the state leaves no choice of which Removed event comes next
RemovedOrderDetermined ==
    \A d1, d2 \in Names : (ENABLED RemovedNext(d1) /\ ENABLED RemovedNext(d2)) => d1 = d2

\* C14: in a cycle the Enabled and Changed events are dispatched before any Removed event
\* and in configuration order, and the order of the Removed events is fixed by
\* previousStates and the configuration: the same on every run.
C14_EventOrder == FirstLoopEventsFirst /\ ConfigurationOrder /\ RemovedOrderDetermined

\* the fingerprint computed in this cycle for d: the one of its last observed entry
LastFetched(d) ==
    LET ks == {k \in DOMAIN fetched : config.Domains[k].Name = d /\ fetched[k] # NotObserved}
    IN  IF ks = {} THEN NotObserved ELSE fetched[CHOOSE k \in ks : \A m \in ks : m <= k]

\* C15: the map a cycle returns holds exactly the domains whose fetch, parse and
\* resolution succeeded in the cycle, each with the fingerprint computed in the cycle
\* from that observation; a domain that was not observed has no entry, whatever
\* previousStates held for it.
C15_ReturnedMapIsObserved ==
    pc = "return" =>
      /\ DOMAIN currentStates = Observed
      /\ \A d \in DOMAIN currentStates :
           /\ currentStates[d] = LastFetched(d)
           /\ LastInfo(d) # Nil
           /\ currentStates[d] = HashDomainInfo(LastInfo(d))
      /\ \A d \in DOMAIN previousStates \ Observed : d \notin DOMAIN currentStates

\* a.com had an entry and its fetch failed; b.com was observed with another registrar
C15_Witness ==
    /\ pc = "return"
    /\ ConfigNames(config) = Names
    /\ Names \subseteq DOMAIN previousStates
    /\ Observed = {"b.com"}
    /\ DOMAIN currentStates = {"b.com"}
    /\ currentStates["b.com"] # previousStates["b.com"]

\* MonitorDomains is running: it has been called and has not reached its return statement
InFlight == pc \in {"observe", "send", "blocked", "range"}

\* every event of the cycle has had all its SendWebhook calls and both loops are over
AllDispatched ==
    /\ pending = <<>>
    /\ todo = {}
    /\ i > Len(config.Domains)
    /\ \A n \in DOMAIN events : Attempted(n) = DueWebhooks(n)

\* C16: previousStates is not modified while a cycle is in flight; it is replaced in one
\* step, by the map the cycle returns, only once every event of the cycle has been
\* dispatched, and the next cycle starts after that step with nothing of the previous
\* cycle still running.
C16_StateMapReplacedAtCycleEnd ==
    [][/\ InFlight => previousStates' = previousStates
       /\ (previousStates' # previousStates \/ pc' = "sleep") =>
            /\ pc = "return"
            /\ pc' = "sleep"
            /\ AllDispatched
            /\ previousStates' = currentStates
       /\ (pc = "load" /\ pc' # "load") =>
            /\ pending = <<>>
            /\ todo = {}
            /\ currentStates = EmptyMap
            /\ events = <<>>]_vars

\* a cycle has returned and its map is in place: b.com with its fingerprint, a.com,
\* which had an entry, gone from it
C16_Witness ==
    /\ pc = "sleep"
    /\ DOMAIN previousStates = {"b.com"}
    /\ "a.com" \in quiet
    /\ currentStates = EmptyMap

IsPrefix(s, t) == Len(s) <= Len(t) /\ s = SubSeq(t, 1, Len(s))

\* the dispatch of the n-th event of the cycle is over
Dispatched(n) == n < Len(events) \/ pc \notin {"send", "blocked"}

\* C17: an Enabled or Changed event gets exactly one SendWebhook call per entry of the
\* domain's own webhook list, in list order, then one per entry of the global list,
\* whatever the calls return: none is repeated, and a sink in both lists is called twice.
C17_FanOutOncePerListEntry ==
    \A n \in DOMAIN events :
      events[n].kind \in {"Enabled", "Changed"} =>
        LET due == config.Domains[events[n].entry].Webhooks \o config.Webhooks
        IN  /\ IsPrefix(Attempted(n), due)
            /\ Dispatched(n) => Attempted(n) = due

\* teams is the first webhook of the domain and a global one too: the Changed event
\* went to it twice, the first call failing, and to every other list entry once
C17_Witness ==
    /\ pc = "return"
    /\ Len(events) = 1
    /\ events[1].kind = "Changed"
    /\ Len(config.Domains[1].Webhooks) = MaxFanOut
    /\ Len(config.Webhooks) = MaxFanOut
    /\ config.Domains[1].Webhooks[1] = Teams
    /\ config.Webhooks[1] = Teams
    /\ Len(attempts) = 2 * MaxFanOut
    /\ attempts[1].result = "err"
    /\ attempts[MaxFanOut + 1].webhook = Teams
    /\ attempts[MaxFanOut + 1].result = "ok"

C19_EventLifecycle ==
    [][Len(events') = Len(events) + 1 =>
         LET e == events'[Len(events')]
         IN  IF e.kind = "Enabled" THEN e.name \notin open ELSE e.name \in open]_vars

\* a.com is enabled again after its Removed event, b.com gets a Changed event
C19_Witness ==
    /\ pc = "return"
    /\ "a.com" \in quiet
    /\ Kinds(EventsOf("a.com")) = <<"Enabled">>
    /\ Kinds(EventsOf("b.com")) = <<"Changed">>
    /\ open = Names

\* C20: after every cycle the keys of previousStates are names of that cycle's
\* configuration, and a domain that had an entry and has gone unobserved through an
\* earlier cycle (its fetch failing, or the configuration not listing it) gets no further
\* Removed event: only the first cycle of such a run emits one.
C20_KeysWithinConfiguration ==
    /\ pc \in {"sleep", "load"} => DOMAIN previousStates \subseteq ConfigNames(config)
    /\ \A n \in DOMAIN events : events[n].kind = "Removed" => events[n].name \notin quiet
    /\ quiet \cap DOMAIN previousStates = {}

\* a.com is listed and its fetch fails again, b.com is still out of the configuration:
\* both had their Removed event in an earlier cycle and this cycle emits nothing
C20_Witness ==
    /\ pc = "return"
    /\ quiet = Names
    /\ ConfigNames(config) = {"a.com"}
    /\ Observed = {}
    /\ events = <<>>
    /\ sameConfig

====
